---- MODULE Spec2Model ----
(***************************************************************************)
(* Emote statistics pipeline of docker/main.py: the transcript scanner     *)
(* (get_emote_users), the rollup aggregation (post_process) and the        *)
(* incremental run of the __main__ block over the persisted state file.    *)
(*                                                                         *)
(* Python values are modelled as follows.                                  *)
(*   str (emote names, message bodies)  tuples of one-character strings,   *)
(*                                      so that `in` is a real substring   *)
(*                                      search                             *)
(*   dict (insertion ordered)           sequence of [key, val] records     *)
(*   list                               sequence                           *)
(*   pydantic models                    records with the declared fields   *)
(*   datetime (UTC)                     [day, hour]                        *)
(*   a file                             [exists, data]                     *)
(***************************************************************************)
EXTENDS Integers, Sequences, FiniteSets, TLC

VARIABLES
    config_exists,  \* the file named by emote_stats_config is present
    path_kind,      \* shape of emote_stats_path: "empty", "bare" or "dir"
    emote_config,   \* emote_config["emotes"]
    state_file,     \* the file at emote_stats_path
    daily_file,     \* daily_emote_totals.json
    user_file,      \* user_emote_totals.json
    pc,             \* position of the control flow
    err,            \* exception that ended the run, "none" otherwise
    emote_stats,    \* emote_stats.data of the running process
    vod_list,       \* result of get_current_vods
    idx,            \* position of the for loop in vod_list
    updated,        \* the updated flag
    chat_data,      \* last transcript returned by get_chat_json
    emote_info,     \* last result of get_emote_users
    pre,            \* history: the three files as they were when the run began
    loaded,         \* history: emote_stats.data right after loading
    fetched,        \* history: records handed to get_chat_json in this run
    scanned,        \* history: records scanned and inserted in this run
    written         \* history: files opened for writing in this run

vars == << config_exists, path_kind, emote_config, state_file, daily_file,
           user_file, pc, err, emote_stats, vod_list, idx, updated, chat_data,
           emote_info, pre, loaded, fetched, scanned, written >>

\* ------------------------------------------------------------------ bounds
MaxComments == 3
MaxRecords == 2
MaxCount == 2
MaxVods == 3
MaxEmotes == 2

\* ------------------------------------------------------- generic helpers
SeqsUpTo(S, n) == UNION {[1..k -> S] : k \in 0..n}

\* ------------------------------------------------------------ Python dict
DictKeys(d) == {d[i].key : i \in 1..Len(d)}

DictHas(d, k) == k \in DictKeys(d)

DictIndex(d, k) == CHOOSE i \in 1..Len(d) : d[i].key = k

DictGet(d, k) == d[DictIndex(d, k)].val

DictSet(d, k, v) ==
    IF DictHas(d, k)
    THEN [d EXCEPT ![DictIndex(d, k)].val = v]
    ELSE Append(d, [key |-> k, val |-> v])

DictValues(d) == [i \in 1..Len(d) |-> d[i].val]

\* ------------------------------------------------------- get_emote_users
StartsWith(body, emote_name) ==
    /\ Len(emote_name) <= Len(body)
    /\ SubSeq(body, 1, Len(emote_name)) = emote_name

\* emote_name in comment["message"]["body"]
Contains(body, emote_name) ==
    \E i \in 0..(Len(body) - Len(emote_name)) :
        SubSeq(body, i + 1, i + Len(emote_name)) = emote_name

CountUseNoLookup(emote_users, commenter) ==
    Append(emote_users,
           [key |-> commenter,
            val |-> [display_name |-> commenter, use_index |-> 1]])

\* the body of the if at lines 144-149
CountUse(emote_users, commenter) ==
    IF DictHas(emote_users, commenter)
    THEN DictSet(emote_users, commenter,
                 [display_name |-> commenter,
                  use_index |-> DictGet(emote_users, commenter).use_index + 1])
    ELSE DictSet(emote_users, commenter,
                 [display_name |-> commenter, use_index |-> 1])

\* the inner for loop over chat_json["comments"]
RECURSIVE ScanComments(_, _, _)
ScanComments(comments, emote_name, emote_users) ==
    IF comments = <<>>
    THEN emote_users
    ELSE LET comment == Head(comments)
         IN  ScanComments(
                 Tail(comments), emote_name,
                 IF Contains(comment.body, emote_name)
                 THEN CountUse(emote_users, comment.commenter)
                 ELSE emote_users)

get_emote_users(chat_json, emote_names) ==
    [i \in 1..Len(emote_names) |->
        [name  |-> emote_names[i],
         users |-> DictValues(ScanComments(chat_json.comments,
                                           emote_names[i], <<>>))]]

\* ---------------------------------------------------------- post_process
\* US/Eastern is five hours behind UTC, four while daylight time is in force
EdtDays == {3}

UtcOffset(day) == IF day \in EdtDays THEN 4 ELSE 5

\* created.replace(tzinfo=utc).astimezone(ZoneInfo("US/Eastern")).strftime("%Y-%m-%d")
\* The zero padded year-month-day string orders as the date does, so the key
\* is kept as the number of the local day.
DateKey(created) ==
    IF created.hour - UtcOffset(created.day) < 0
    THEN created.day - 1
    ELSE created.day

\* lines 183-188
AddUserTotal(user_totals, emote_name, user) ==
    LET ut  == IF ~DictHas(user_totals, emote_name)
               THEN DictSet(user_totals, emote_name, <<>>)
               ELSE user_totals
        sub == DictGet(ut, emote_name)
    IN  IF ~DictHas(sub, user.display_name)
        THEN DictSet(ut, emote_name,
                     DictSet(sub, user.display_name, user.use_index))
        ELSE DictSet(ut, emote_name,
                     DictSet(sub, user.display_name,
                             DictGet(sub, user.display_name) + user.use_index))

\* the for loop over emote.users, lines 179-188
RECURSIVE UserLoop(_, _, _, _)
UserLoop(users, emote_name, emote_count, user_totals) ==
    IF users = <<>>
    THEN [emote_count |-> emote_count, user_totals |-> user_totals]
    ELSE LET user == Head(users)
         IN  UserLoop(Tail(users), emote_name,
                      emote_count + user.use_index,
                      AddUserTotal(user_totals, emote_name, user))

AddDailyTotalOverwrite(daily_emote_totals, emote_name, date_key, emote_count) ==
    LET dt == IF ~DictHas(daily_emote_totals, emote_name)
              THEN DictSet(daily_emote_totals, emote_name, <<>>)
              ELSE daily_emote_totals
    IN  DictSet(dt, emote_name,
                DictSet(DictGet(dt, emote_name), date_key, emote_count))

\* lines 190-195
AddDailyTotal(daily_emote_totals, emote_name, date_key, emote_count) ==
    LET dt  == IF ~DictHas(daily_emote_totals, emote_name)
               THEN DictSet(daily_emote_totals, emote_name, <<>>)
               ELSE daily_emote_totals
        sub == DictGet(dt, emote_name)
    IN  IF ~DictHas(sub, date_key)
        THEN DictSet(dt, emote_name, DictSet(sub, date_key, emote_count))
        ELSE DictSet(dt, emote_name,
                     DictSet(sub, date_key,
                             DictGet(sub, date_key) + emote_count))

\* the for loop over vod.emotes, lines 178-195
RECURSIVE EmoteLoop(_, _, _)
EmoteLoop(emotes, date_key, totals) ==
    IF emotes = <<>>
    THEN totals
    ELSE LET emote == Head(emotes)
             ul    == UserLoop(emote.users, emote.name, 0, totals.user_totals)
         IN  EmoteLoop(Tail(emotes), date_key,
                       [daily_emote_totals |->
                            AddDailyTotal(totals.daily_emote_totals,
                                          emote.name, date_key, ul.emote_count),
                        user_totals |-> ul.user_totals])

\* the for loop over emote_stats.data.values(), lines 171-195
RECURSIVE VodLoop(_, _)
VodLoop(vods, totals) ==
    IF vods = <<>>
    THEN totals
    ELSE LET vod == Head(vods)
         IN  VodLoop(Tail(vods),
                     EmoteLoop(vod.emotes, DateKey(vod.info.created), totals))

\* sorted(...) is stable: an item goes behind the items that compare equal
RECURSIVE InsertAscending(_, _)
InsertAscending(sorted, item) ==
    IF sorted = <<>>
    THEN <<item>>
    ELSE IF item.key < Head(sorted).key
         THEN <<item>> \o sorted
         ELSE <<Head(sorted)>> \o InsertAscending(Tail(sorted), item)

RECURSIVE InsertDescending(_, _)
InsertDescending(sorted, item) ==
    IF sorted = <<>>
    THEN <<item>>
    ELSE IF item.val > Head(sorted).val
         THEN <<item>> \o sorted
         ELSE <<Head(sorted)>> \o InsertDescending(Tail(sorted), item)

RECURSIVE SortDaysFrom(_, _)
SortDaysFrom(items, sorted) ==
    IF items = <<>>
    THEN sorted
    ELSE SortDaysFrom(Tail(items), InsertAscending(sorted, Head(items)))

RECURSIVE SortUsersFrom(_, _)
SortUsersFrom(items, sorted) ==
    IF items = <<>>
    THEN sorted
    ELSE SortUsersFrom(Tail(items), InsertDescending(sorted, Head(items)))

\* dict(sorted(daily_emote_totals[key].items())), line 199
SortDays(day_totals) == SortDaysFrom(day_totals, <<>>)

SortUsersSkipped(name_totals) == name_totals

\* dict(sorted(user_totals[key].items(), key=item[1], reverse=True)), 201-203
SortUsers(name_totals) == SortUsersFrom(name_totals, <<>>)

\* lines 169-203: what post_process writes to the two rollup files
post_process(stats) ==
    LET totals == VodLoop(DictValues(stats),
                          [daily_emote_totals |-> <<>>, user_totals |-> <<>>])
        daily  == totals.daily_emote_totals
        user   == totals.user_totals
    IN  [daily |-> [i \in 1..Len(daily) |->
                        [key |-> daily[i].key, val |-> SortDays(daily[i].val)]],
         user  |-> [i \in 1..Len(user) |->
                        [key |-> user[i].key, val |-> SortUsers(user[i].val)]]]

\* ------------------------------------------------------------ input sets
Users == {"A", "B"}

P == <<"p">>
KP == <<"k", "p">>

EmoteNames == {P, KP}

\* "k" holds no emote, "pp" holds p twice, "kp" holds p once and is kp itself
Bodies == {<<"k">>, <<"p", "p">>, KP}

Comments == [commenter : Users, body : Bodies]

NoFile == [exists |-> FALSE, data |-> <<>>]

FileOf(data) == [exists |-> TRUE, data |-> data]

NoChat == [comments |-> <<>>]

NoPre == [state |-> NoFile, daily |-> NoFile, user |-> NoFile]

\* ------------------------------------- the __main__ block, lines 213-252
\* vod.id in emote_stats.data, line 229
AlreadyInJsonNever(vod, stats) == FALSE

AlreadyInJsonByInfo(vod, stats) ==
    \E i \in 1..Len(stats) : stats[i].val.info = vod

AlreadyInJson(vod, stats) == DictHas(stats, vod.id)

SetUpdatedNever(flag) == flag

\* updated = True, line 233
SetUpdated(flag) == TRUE

RunOver == pc \in {"idle", "done", "aborted"}

InLoop == pc = "loop" /\ idx <= Len(vod_list)

LoopOver == pc = "loop" /\ idx > Len(vod_list)

RunVars == << emote_stats, vod_list, idx, updated, chat_data, emote_info >>

Files == << state_file, daily_file, user_file >>

Env == << config_exists, path_kind, emote_config >>

BeginRun ==
    /\ pre' = [state |-> state_file, daily |-> daily_file, user |-> user_file]
    /\ fetched' = <<>>
    /\ scanned' = <<>>
    /\ written' = {}

\* line 214: open(emote_stats_config) raises FileNotFoundError
ConfigMissing ==
    /\ RunOver
    /\ ~config_exists
    /\ BeginRun
    /\ pc' = "aborted"
    /\ err' = "config_not_found"
    /\ emote_stats' = <<>>
    /\ vod_list' = <<>>
    /\ idx' = 1
    /\ updated' = FALSE
    /\ loaded' = <<>>
    /\ UNCHANGED << Env, Files, chat_data, emote_info >>

\* line 218: emote_stats_path is not empty and open(emote_stats_path) raises
StateMissing ==
    /\ RunOver
    /\ config_exists
    /\ path_kind # "empty"
    /\ ~state_file.exists
    /\ BeginRun
    /\ pc' = "aborted"
    /\ err' = "state_not_found"
    /\ emote_stats' = <<>>
    /\ vod_list' = <<>>
    /\ idx' = 1
    /\ updated' = FALSE
    /\ loaded' = <<>>
    /\ UNCHANGED << Env, Files, chat_data, emote_info >>

\* lines 214-225: config and state are loaded, the videos are listed
Load(vods) ==
    /\ RunOver
    /\ config_exists
    /\ path_kind = "empty" \/ state_file.exists
    /\ BeginRun
    /\ emote_stats' = IF path_kind = "empty" THEN <<>> ELSE state_file.data
    /\ loaded' = emote_stats'
    /\ vod_list' = vods
    /\ idx' = 1
    /\ updated' = FALSE
    /\ pc' = "loop"
    /\ err' = "none"
    /\ UNCHANGED << Env, Files, chat_data, emote_info >>

\* lines 229-231
Skip ==
    /\ InLoop
    /\ AlreadyInJson(vod_list[idx], emote_stats)
    /\ idx' = idx + 1
    /\ UNCHANGED << Env, Files, pc, err, emote_stats, vod_list, updated,
                    chat_data, emote_info, pre, loaded, fetched, scanned,
                    written >>

\* lines 233-235: get_chat_json raises
FetchFails ==
    /\ InLoop
    /\ ~AlreadyInJson(vod_list[idx], emote_stats)
    /\ updated' = SetUpdated(updated)
    /\ fetched' = Append(fetched, vod_list[idx])
    /\ pc' = "aborted"
    /\ err' = "fetch_failed"
    /\ UNCHANGED << Env, Files, emote_stats, vod_list, idx, chat_data,
                    emote_info, pre, loaded, scanned, written >>

\* lines 233-244
Process(chat_json) ==
    /\ InLoop
    /\ ~AlreadyInJson(vod_list[idx], emote_stats)
    /\ updated' = SetUpdated(updated)
    /\ fetched' = Append(fetched, vod_list[idx])
    /\ chat_data' = chat_json
    /\ emote_info' = get_emote_users(chat_json, emote_config)
    /\ emote_stats' = DictSet(emote_stats, vod_list[idx].id,
                              [info |-> vod_list[idx], emotes |-> emote_info'])
    /\ scanned' = Append(scanned, vod_list[idx])
    /\ idx' = idx + 1
    /\ UNCHANGED << Env, Files, pc, err, vod_list, pre, loaded, written >>

\* lines 251-252
NoNewVods ==
    /\ LoopOver
    /\ ~updated
    /\ pc' = "done"
    /\ UNCHANGED << Env, Files, RunVars, err, pre, loaded, fetched, scanned,
                    written >>

\* line 247 with an empty emote_stats_path: open("", "w") raises
WriteOpenFails ==
    /\ LoopOver
    /\ updated
    /\ path_kind = "empty"
    /\ pc' = "aborted"
    /\ err' = "state_open_failed"
    /\ UNCHANGED << Env, Files, RunVars, pre, loaded, fetched, scanned,
                    written >>

\* lines 247-249 with a path without a directory part: the state is written,
\* then os.path.exists("") is false and post_process raises at line 166
WritePathMissing ==
    /\ LoopOver
    /\ updated
    /\ path_kind = "bare"
    /\ state_file' = FileOf(emote_stats)
    /\ written' = {"state"}
    /\ pc' = "aborted"
    /\ err' = "write_path_missing"
    /\ UNCHANGED << Env, daily_file, user_file, RunVars, pre, loaded, fetched,
                    scanned >>

\* lines 246-250
Write ==
    /\ LoopOver
    /\ updated
    /\ path_kind = "dir"
    /\ state_file' = FileOf(emote_stats)
    /\ daily_file' = FileOf(post_process(emote_stats).daily)
    /\ user_file' = FileOf(post_process(emote_stats).user)
    /\ written' = {"state", "daily", "user"}
    /\ pc' = "done"
    /\ UNCHANGED << Env, RunVars, err, pre, loaded, fetched, scanned >>

\* --------------------------------------------------- the runs of __main__
At(day, hour) == [day |-> day, hour |-> hour]

Vod(id, title, created) ==
    [id |-> id, title |-> title, created |-> created, published |-> created]

\* v1 and v2 fall on the same US/Eastern day; v1 is also listed with a changed
\* title and timestamp
AvailableVods ==
    { Vod("v1", "t1", At(2, 2)),
      Vod("v1", "t2", At(3, 4)),
      Vod("v2", "t1", At(1, 20)) }

Said(commenter, body) == [commenter |-> commenter, body |-> body]

Transcripts ==
    { NoChat,
      [comments |-> << Said("A", <<"p", "p">>), Said("B", KP), Said("A", <<"k">>) >>],
      [comments |-> << Said("B", KP), Said("B", <<"p", "p">>), Said("A", KP) >>] }

ConfiguredEmotes == << P, KP >>

Init ==
    /\ config_exists \in BOOLEAN
    /\ path_kind \in {"empty", "bare", "dir"}
    /\ emote_config = ConfiguredEmotes
    /\ state_file \in (IF path_kind = "empty" THEN {NoFile}
                                               ELSE {NoFile, FileOf(<<>>)})
    /\ daily_file = NoFile
    /\ user_file = NoFile
    /\ pc = "idle"
    /\ err = "none"
    /\ emote_stats = <<>>
    /\ vod_list = <<>>
    /\ idx = 1
    /\ updated = FALSE
    /\ chat_data = NoChat
    /\ emote_info = <<>>
    /\ pre = NoPre
    /\ loaded = <<>>
    /\ fetched = <<>>
    /\ scanned = <<>>
    /\ written = {}

Next ==
    \/ ConfigMissing
    \/ StateMissing
    \/ \E vods \in SeqsUpTo(AvailableVods, MaxVods) : Load(vods)
    \/ Skip
    \/ FetchFails
    \/ \E chat_json \in Transcripts : Process(chat_json)
    \/ NoNewVods
    \/ WriteOpenFails
    \/ WritePathMissing
    \/ Write

Spec == Init /\ [][Next]_vars

\* ------------------------------------------- get_emote_users on its own
Idle ==
    /\ config_exists = TRUE
    /\ path_kind = "dir"
    /\ state_file = NoFile
    /\ daily_file = NoFile
    /\ user_file = NoFile
    /\ err = "none"
    /\ vod_list = <<>>
    /\ idx = 1
    /\ updated = FALSE
    /\ pre = NoPre
    /\ loaded = <<>>
    /\ fetched = <<>>
    /\ scanned = <<>>
    /\ written = {}

InitScan ==
    /\ Idle
    /\ chat_data \in [comments : SeqsUpTo(Comments, MaxComments)]
    /\ emote_config \in SeqsUpTo(EmoteNames, MaxEmotes)
    /\ emote_info = <<>>
    /\ emote_stats = <<>>
    /\ pc = "scan"

Scan ==
    /\ pc = "scan"
    /\ emote_info' = get_emote_users(chat_data, emote_config)
    /\ pc' = "scanned"
    /\ UNCHANGED << Env, Files, err, emote_stats, vod_list, idx, updated,
                    chat_data, pre, loaded, fetched, scanned, written >>

NextScan == Scan

SpecScan == InitScan /\ [][NextScan]_vars

\* ---------------------------------------------- post_process on its own
UserLists(maxLen, maxCount) ==
    { ul \in SeqsUpTo([display_name : Users, use_index : 1..maxCount], maxLen) :
        \A i, j \in 1..Len(ul) :
            ul[i].display_name = ul[j].display_name => i = j }

\* what get_emote_users can have stored in one record: one emote with up to
\* two users, or two emotes with up to one user each
RecordEmotes ==
    { << [name |-> P, users |-> ul] >> : ul \in UserLists(2, MaxCount) }
    \cup
    { << [name |-> P, users |-> ul[1]], [name |-> KP, users |-> ul[2]] >> :
        ul \in UserLists(1, 1) \X UserLists(1, 1) }

CreatedTimes == { At(2, 2), At(2, 20) }

StoredRecord(i, created, emotes) ==
    [key |-> ToString(i),
     val |-> [info   |-> Vod(ToString(i), "t1", created),
              emotes |-> emotes]]

\* an EmoteState of up to MaxRecords records
InitRollup ==
    /\ Idle
    /\ \E k \in 0..MaxRecords :
           \E c \in [1..k -> CreatedTimes], e \in [1..k -> RecordEmotes] :
               emote_stats = [i \in 1..k |-> StoredRecord(i, c[i], e[i])]
    /\ emote_config = ConfiguredEmotes
    /\ chat_data = NoChat
    /\ emote_info = <<>>
    /\ pc = "aggregate"

Aggregate ==
    /\ pc = "aggregate"
    /\ daily_file' = FileOf(post_process(emote_stats).daily)
    /\ user_file' = FileOf(post_process(emote_stats).user)
    /\ pc' = "aggregated"
    /\ UNCHANGED << Env, state_file, err, RunVars, pre, loaded, fetched,
                    scanned, written >>

NextRollup == Aggregate

SpecRollup == InitRollup /\ [][NextRollup]_vars

\* ========================================================== the claims
\* Reference notions, stated without the operators of the model above.

\* name occurs in body: body = prefix \o name \o suffix
IsSubstring(name, body) ==
    \E i, j \in 0..Len(body) : i <= j /\ SubSeq(body, i + 1, j) = name

RECURSIVE SumFn(_)
SumFn(f) ==
    IF DOMAIN f = {}
    THEN 0
    ELSE LET x == CHOOSE y \in DOMAIN f : TRUE
         IN  f[x] + SumFn([y \in DOMAIN f \ {x} |-> f[y]])

MatchingComments(chat_json, name) ==
    { i \in 1..Len(chat_json.comments) :
        IsSubstring(name, chat_json.comments[i].body) }

MatchingCommentsOf(chat_json, name, user) ==
    { i \in MatchingComments(chat_json, name) :
        chat_json.comments[i].commenter = user }

CountOf(usage, user) ==
    SumFn([i \in { k \in 1..Len(usage.users) :
                     usage.users[k].display_name = user } |->
              usage.users[i].use_index])

\* C4: the counts of one EmoteUsage sum to the number of comments whose body
\* holds the emote name as a substring, one per matching comment whatever the
\* number of occurrences in the body, each credited to its commenter.
C4_CountConservation ==
    pc = "scanned" =>
        \A k \in 1..Len(emote_config) :
            /\ Len(emote_info) >= k
            /\ SumFn([i \in 1..Len(emote_info[k].users) |->
                         emote_info[k].users[i].use_index])
                 = Cardinality(MatchingComments(chat_data, emote_config[k]))
            /\ \A user \in Users :
                   CountOf(emote_info[k], user)
                     = Cardinality(MatchingCommentsOf(chat_data, emote_config[k], user))

\* a scan of three comments: the same user matches p twice, once in a body
\* that holds p twice and not at its start, and one comment does not match
C4_Witness ==
    /\ pc = "scanned"
    /\ emote_config = << P >>
    /\ chat_data.comments =
           << Said("A", <<"p", "p">>), Said("B", <<"k">>), Said("A", KP) >>
    /\ emote_info = << [name |-> P,
                        users |-> << [display_name |-> "A", use_index |-> 2] >>] >>

\* C5: one EmoteUsage per listed emote name, in list order, also for an emote
\* nobody used; display names are pairwise distinct, every user who matched
\* has an entry, every count is at least 1 and nobody else is listed.
C5_OneUsagePerEmote ==
    pc = "scanned" =>
        /\ Len(emote_info) = Len(emote_config)
        /\ \A k \in 1..Len(emote_info) :
               LET users == emote_info[k].users
               IN  /\ emote_info[k].name = emote_config[k]
                   /\ \A i, j \in 1..Len(users) :
                          users[i].display_name = users[j].display_name => i = j
                   /\ \A i \in 1..Len(users) : users[i].use_index >= 1
                   /\ { users[i].display_name : i \in 1..Len(users) }
                        = { u \in Users :
                              MatchingCommentsOf(chat_data, emote_config[k], u) # {} }

\* two emotes asked for: both users used p, A twice, and nobody used kp
C5_Witness ==
    /\ pc = "scanned"
    /\ emote_config = << KP, P >>
    /\ Len(chat_data.comments) = 3
    /\ emote_info[1] = [name |-> KP, users |-> <<>>]
    /\ emote_info[2].name = P
    /\ emote_info[2].users = << [display_name |-> "B", use_index |-> 1],
                                [display_name |-> "A", use_index |-> 2] >>

\* every <<record, emote, user>> position of an EmoteState, in traversal order
Sightings(stats) ==
    UNION { UNION { { << v, e, u >> :
                        u \in 1..Len(stats[v].val.emotes[e].users) } :
                    e \in 1..Len(stats[v].val.emotes) } :
            v \in 1..Len(stats) }

SightingsOf(stats, name) ==
    { t \in Sightings(stats) : stats[t[1]].val.emotes[t[2]].name = name }

UserAt(stats, t) == stats[t[1]].val.emotes[t[2]].users[t[3]]

EmoteNamesIn(stats) ==
    UNION { { stats[v].val.emotes[e].name : e \in 1..Len(stats[v].val.emotes) } :
            v \in 1..Len(stats) }

TotalOccurrences(stats, name) ==
    SumFn([t \in SightingsOf(stats, name) |-> UserAt(stats, t).use_index])

DictSum(d) == SumFn([i \in 1..Len(d) |-> d[i].val])

\* C6: for every emote name of any stored record, also one nobody ever used,
\* sum(DailyRollup[emote].values()) == sum(UserRollup[emote].values()), both
\* the total number of occurrences of the emote over all records.
C6_RollupSumsAgree ==
    (daily_file.exists /\ user_file.exists) =>
        \A name \in EmoteNamesIn(state_file.data) :
            /\ DictHas(daily_file.data, name)
            /\ DictHas(user_file.data, name)
            /\ DictSum(DictGet(daily_file.data, name))
                 = DictSum(DictGet(user_file.data, name))
            /\ DictSum(DictGet(daily_file.data, name))
                 = TotalOccurrences(state_file.data, name)

NonDecreasingKeys(d) ==
    \A i, j \in 1..Len(d) : i < j => d[i].key <= d[j].key

NonIncreasingValues(d) ==
    \A i, j \in 1..Len(d) : i < j => d[i].val >= d[j].val

Earlier(s, t) ==
    \/ s[1] < t[1]
    \/ s[1] = t[1] /\ s[2] < t[2]
    \/ s[1] = t[1] /\ s[2] = t[2] /\ s[3] < t[3]

SightingsOfUser(stats, name, user) ==
    { t \in SightingsOf(stats, name) : UserAt(stats, t).display_name = user }

\* user a is met before user b while the EmoteState is traversed
FirstSeenBefore(stats, name, a, b) ==
    \E s \in SightingsOfUser(stats, name, a) :
        \A t \in SightingsOfUser(stats, name, b) : Earlier(s, t)

\* C8: per emote the day keys of DailyRollup ascend, the counts of UserRollup
\* do not increase, and users with equal counts stay in first-seen order.
C8_SortOrder ==
    pc = "aggregated" =>
        /\ \A i \in 1..Len(daily_file.data) :
               NonDecreasingKeys(daily_file.data[i].val)
        /\ \A i \in 1..Len(user_file.data) :
               LET name  == user_file.data[i].key
                   users == user_file.data[i].val
               IN  /\ NonIncreasingValues(users)
                   /\ \A a, b \in 1..Len(users) :
                          (a < b /\ users[a].val = users[b].val) =>
                              FirstSeenBefore(emote_stats, name,
                                              users[a].key, users[b].key)

\* the later day is stored first and comes out second; B, met first, ties with
\* A on 3 and stays ahead of A
C8_Witness ==
    /\ pc = "aggregated"
    /\ Len(emote_stats) = 2
    /\ DateKey(emote_stats[1].val.info.created)
         > DateKey(emote_stats[2].val.info.created)
    /\ emote_stats[1].val.emotes[1].users
         = << [display_name |-> "B", use_index |-> 2],
              [display_name |-> "A", use_index |-> 1] >>
    /\ emote_stats[2].val.emotes[1].users
         = << [display_name |-> "A", use_index |-> 2],
              [display_name |-> "B", use_index |-> 1] >>
    /\ DictGet(user_file.data, P) = << [key |-> "B", val |-> 3],
                                       [key |-> "A", val |-> 3] >>
    /\ DictGet(daily_file.data, P) = << [key |-> 1, val |-> 3],
                                        [key |-> 2, val |-> 3] >>

UniqueKeys(d) == \A i, j \in 1..Len(d) : d[i].key = d[j].key => i = j

Entries(d) == { d[i] : i \in 1..Len(d) }

Ids(records) == { records[i].id : i \in 1..Len(records) }

\* C1: no identifier is a key of EmoteState twice, and every entry persisted
\* before a run is persisted unchanged after it, also when the listing repeats
\* an identifier or reports a recorded identifier with a changed title or
\* timestamp.
C1_AppendOnly ==
    /\ UniqueKeys(state_file.data)
    /\ UniqueKeys(emote_stats)
    /\ Entries(pre.state.data) \subseteq Entries(state_file.data)
    /\ pc \in {"loop", "done"} => Entries(loaded) \subseteq Entries(emote_stats)

\* a second run that wrote: v1 was stored as "t1", the listing reports it as
\* "t2" with another timestamp and lists the new v2 twice
C1_Witness ==
    /\ pc = "done"
    /\ written # {}
    /\ Len(pre.state.data) = 1
    /\ pre.state.data[1].val.info = Vod("v1", "t1", At(2, 2))
    /\ vod_list = << Vod("v1", "t2", At(3, 4)), Vod("v2", "t1", At(1, 20)),
                     Vod("v2", "t1", At(1, 20)) >>
    /\ Len(state_file.data) = 2
    /\ state_file.data[1] = pre.state.data[1]

KthSmallest(S, k) == CHOOSE i \in S : Cardinality({ j \in S : j <= i }) = k

\* the records of vod_list at the positions of S, in list order
Picked(S) == [k \in 1..Cardinality(S) |-> vod_list[KthSmallest(S, k)]]

Considered == 1..(idx - 1)

AbsentFromLoaded == { i \in Considered : vod_list[i].id \notin DictKeys(loaded) }

FirstAbsentFromLoaded ==
    { i \in AbsentFromLoaded : \A j \in 1..(i - 1) : vod_list[j].id # vod_list[i].id }

\* C2 as stated: the records scanned and inserted are exactly the listed
\* records whose identifier is absent from the loaded EmoteState, in list order.
C2_AsStated ==
    pc = "done" => scanned = Picked(AbsentFromLoaded)

\* C2 amended: they are the first listed record of each identifier absent from
\* the loaded EmoteState, in list order; nothing else is fetched, and presence
\* is decided by the identifier alone.
C2_FirstOfEachNewId ==
    /\ pc \in {"loop", "done"} =>
           /\ scanned = Picked(FirstAbsentFromLoaded)
           /\ fetched = scanned
    /\ \A i \in 1..Len(fetched) : fetched[i].id \notin DictKeys(loaded)

\* v1 is stored; the listing holds v1 retitled, the new v2, and v2 again
C2_Witness ==
    /\ pc = "done"
    /\ DictKeys(loaded) = {"v1"}
    /\ loaded[1].val.info.title = "t1"
    /\ vod_list = << Vod("v1", "t2", At(3, 4)), Vod("v2", "t1", At(1, 20)),
                     Vod("v2", "t1", At(1, 20)) >>
    /\ scanned = << Vod("v2", "t1", At(1, 20)) >>

NewListed == { i \in 1..Len(vod_list) : vod_list[i].id \notin DictKeys(loaded) }

FilesNow == [state |-> state_file, daily |-> daily_file, user |-> user_file]

\* C3: at the end of the loop updated is true exactly when some listed record
\* was new; a run that completes overwrites the state file and both rollup
\* files if and only if that is so, and a run without new records leaves the
\* three files as they were.
C3_WriteIffNew ==
    /\ LoopOver => (updated <=> NewListed # {})
    /\ pc = "done" =>
           /\ NewListed # {} <=> written = {"state", "daily", "user"}
           /\ NewListed = {} <=> written = {}
           /\ NewListed = {} => FilesNow = pre

\* a run over two listed records, both already stored, after a run that wrote
C3_Witness ==
    /\ pc = "done"
    /\ Len(vod_list) = 2
    /\ NewListed = {}
    /\ Len(state_file.data) = 2
    /\ daily_file.exists
    /\ user_file.data # <<>>
    /\ FilesNow = pre

\* the US/Eastern calendar day of a UTC instant, counted in hours
LocalDay(created) ==
    (24 * created.day + created.hour
        - (IF created.day \in EdtDays THEN 4 ELSE 5)) \div 24

DaysOf(stats, name) ==
    { LocalDay(stats[v].val.info.created) :
        v \in { w \in 1..Len(stats) :
                  \E e \in 1..Len(stats[w].val.emotes) :
                      stats[w].val.emotes[e].name = name } }

ExpectedDaily(stats, name, day) ==
    SumFn([t \in { s \in SightingsOf(stats, name) :
                     LocalDay(stats[s[1]].val.info.created) = day } |->
              UserAt(stats, t).use_index])

UsersOf(stats, name) ==
    { UserAt(stats, t).display_name : t \in SightingsOf(stats, name) }

ExpectedUser(stats, name, user) ==
    SumFn([t \in SightingsOfUser(stats, name, user) |->
              UserAt(stats, t).use_index])

\* C7: after a completed run that added a record, the persisted rollups are
\* the aggregation of the whole persisted EmoteState, earlier records and new
\* ones: DailyRollup[emote][day] sums the counts of the emote over the records
\* created that day, UserRollup[emote][user] sums the user's counts.
C7_RollupsOfFullState ==
    (pc = "done" /\ scanned # <<>>) =>
        LET stats == state_file.data
            daily == daily_file.data
            user  == user_file.data
        IN  /\ DictKeys(stats) = DictKeys(pre.state.data) \cup Ids(scanned)
            /\ daily_file.exists /\ user_file.exists
            /\ DictKeys(daily) = EmoteNamesIn(stats)
            /\ \A name \in EmoteNamesIn(stats) :
                   /\ DictKeys(DictGet(daily, name)) = DaysOf(stats, name)
                   /\ \A day \in DaysOf(stats, name) :
                          DictGet(DictGet(daily, name), day)
                            = ExpectedDaily(stats, name, day)
            /\ DictKeys(user) = { name \in EmoteNamesIn(stats) :
                                    UsersOf(stats, name) # {} }
            /\ \A name \in DictKeys(user) :
                   /\ DictKeys(DictGet(user, name)) = UsersOf(stats, name)
                   /\ \A u \in UsersOf(stats, name) :
                          DictGet(DictGet(user, name), u)
                            = ExpectedUser(stats, name, u)

\* v2, stored by an earlier run with 2 uses of p, and v1, added by this run
\* with 3, fall on the same US/Eastern day: the day holds 5
C7_Witness ==
    /\ pc = "done"
    /\ Len(pre.state.data) = 1
    /\ TotalOccurrences(pre.state.data, P) = 2
    /\ scanned = << Vod("v1", "t1", At(2, 2)) >>
    /\ TotalOccurrences(state_file.data, P) = 5
    /\ DictGet(daily_file.data, P) = << [key |-> 1, val |-> 5] >>
    /\ DictGet(DictGet(user_file.data, P), "B") = 3

SourceNotFound ==
    {"config_not_found", "state_not_found", "state_open_failed",
     "write_path_missing"}

\* C9: a run that finds no persisted state file starts with an empty
\* EmoteState and does not raise SourceNotFound; a run that finds no config
\* file raises SourceNotFound before anything is processed.
C9_AbsentSources ==
    /\ (pc # "idle" /\ config_exists /\ ~pre.state.exists) =>
           /\ err # "state_not_found"
           /\ loaded = <<>>
    /\ (pc # "idle" /\ ~config_exists) =>
           /\ pc = "aborted"
           /\ err \in SourceNotFound
           /\ fetched = <<>>

\* C10: a run either completes with every new record in the persisted
\* EmoteState, or aborts and leaves the state file and the rollup files as
\* they were; after a failed fetch none of the records already scanned in the
\* run is persisted.
C10_AllOrNothing ==
    /\ pc = "done" =>
           { vod_list[i].id : i \in 1..Len(vod_list) } \subseteq DictKeys(state_file.data)
    /\ pc = "aborted" => FilesNow = pre
    /\ (pc = "aborted" /\ err = "fetch_failed") =>
           Ids(scanned) \cap DictKeys(state_file.data) = {}

====
